---- MODULE Spec2Model ----
(***************************************************************************)
(* Model of the ATS scoring engine of resume_scanner/ats_scorer.py.        *)
(*                                                                         *)
(* Texts are strings; a character is a string of length 1.  Python floats  *)
(* are modelled in fixed point: a score is an integer number of            *)
(* micro-points (Scale per point), so round(x, 2) is a rounding to a       *)
(* multiple of Scale \div 100.                                            *)
(***************************************************************************)
EXTENDS Integers, Sequences, FiniteSets, TLC

VARIABLES
    resume_text,          \* argument of the calls: the resume
    jd_text,              \* argument of the calls: the job description
    STRONG_ACTION_VERBS,  \* module table (a mutable Python set)
    RESUME_SECTIONS,      \* module table (a mutable Python dict, in key order)
    last,                 \* the last call: the function and what it returned
    ats_result,           \* <<r>>, r what calculate_ats_score returned last
    first_result,         \* <<r>>, r what calculate_ats_score returned first
    calls,                \* number of calculate_ats_score calls made
    running               \* the concurrent calls of calculate_ats_score:
                          \* arguments, what the scorers returned, result

vars == <<resume_text, jd_text, STRONG_ACTION_VERBS, RESUME_SECTIONS, last,
          ats_result, first_result, calls, running>>

\* No call made yet
None == <<>>

(***************************************************************************)
(* Characters and strings (Python str, re, string)                         *)
(***************************************************************************)

Ch(s, i) == SubSeq(s, i, i)

Min(a, b) == IF a < b THEN a ELSE b
Max(a, b) == IF a > b THEN a ELSE b

\* str.isspace for the characters of the alphabet: \s of re
IsSpace(c) == c \in {" ", "\n", "\t"}

ascii_uppercase == "ABCDEFGHIJKLMNOPQRSTUVWXYZ"
ascii_lowercase == "abcdefghijklmnopqrstuvwxyz"
digits == "0123456789"

\* string.punctuation (without the backquote, which no text of the model holds)
punctuation == "!\"#$%&'()*+,-./:;<=>?@[\\]^_{|}~"

CharsOf(s) == {Ch(s, i) : i \in 1..Len(s)}

UpperSet == CharsOf(ascii_uppercase)
PunctSet == CharsOf(punctuation)

\* \w of re: letters, digits and the underscore
IsWordChar(c) ==
    c \in CharsOf(ascii_uppercase) \cup CharsOf(ascii_lowercase)
          \cup CharsOf(digits) \cup {"_"}

LowerOf ==
    [c \in UpperSet |->
        Ch(ascii_lowercase, CHOOSE i \in 1..26 : Ch(ascii_uppercase, i) = c)]

LowerChar(c) == IF c \in UpperSet THEN LowerOf[c] ELSE c

\* Code points of the printable ASCII characters, for the order of sorted()
AsciiPrintable ==
    " !\"#$%&'()*+,-./0123456789:;<=>?@ABCDEFGHIJKLMNOPQRSTUVWXYZ[\\]^_abcdefghijklmnopqrstuvwxyz{|}~"

OrdOf ==
    [c \in CharsOf(AsciiPrintable) |->
        LET i == CHOOSE j \in 1..Len(AsciiPrintable) : Ch(AsciiPrintable, j) = c
        IN  IF i <= 64 THEN 31 + i ELSE 32 + i]

Ord(c) == IF c = "\t" THEN 9 ELSE IF c = "\n" THEN 10 ELSE OrdOf[c]

\* The concatenation of the strings f[lo], ..., f[hi]
RECURSIVE JoinStr(_, _, _)
JoinStr(f, lo, hi) ==
    IF lo > hi THEN ""
    ELSE IF lo = hi THEN f[lo]
    ELSE LET mid == (lo + hi) \div 2
         IN  JoinStr(f, lo, mid) \o JoinStr(f, mid + 1, hi)

\* The concatenation of the sequences f[lo], ..., f[hi]
RECURSIVE JoinSeq(_, _, _)
JoinSeq(f, lo, hi) ==
    IF lo > hi THEN <<>>
    ELSE IF lo = hi THEN f[lo]
    ELSE LET mid == (lo + hi) \div 2
         IN  JoinSeq(f, lo, mid) \o JoinSeq(f, mid + 1, hi)

\* sep.join(q)
JoinWith(q, sep) ==
    JoinStr([i \in 1..Len(q) |-> IF i = 1 THEN q[i] ELSE sep \o q[i]],
            1, Len(q))

\* str.lower
Lower(s) == JoinStr([i \in 1..Len(s) |-> LowerChar(Ch(s, i))], 1, Len(s))

\* A maximal run of whitespace, or of non-whitespace, starts at i
IsRunStart(s, i) ==
    i = 1 \/ IsSpace(Ch(s, i)) # IsSpace(Ch(s, i - 1))

\* Last index of the run that starts at i
RunEnd(s, i) ==
    CHOOSE e \in i..Len(s) :
        e = Len(s) \/ IsSpace(Ch(s, e + 1)) # IsSpace(Ch(s, i))

\* r'http\S+|www\S+' matches at index k of the non-whitespace run r
UrlAt(r, k) ==
    \/ k + 4 <= Len(r) /\ SubSeq(r, k, k + 3) = "http"
    \/ k + 3 <= Len(r) /\ SubSeq(r, k, k + 2) = "www"

\* re.sub(r'http\S+|www\S+', '', r) on a non-whitespace run: the leftmost
\* match runs to the end of the run
SubUrlRun(r) ==
    IF \E k \in 1..Len(r) : UrlAt(r, k)
    THEN LET k == CHOOSE j \in 1..Len(r) :
                      UrlAt(r, j) /\ \A m \in 1..(j - 1) : ~UrlAt(r, m)
         IN  SubSeq(r, 1, k - 1)
    ELSE r

\* re.sub(r'\S+@\S+', '', r) on a non-whitespace run: an '@' with a
\* character before it and one after it makes the whole run match
SubEmailRun(r) ==
    IF \E p \in 2..(Len(r) - 1) : Ch(r, p) = "@" THEN "" ELSE r

\* The class [...] of line 70: string.punctuation without '-' and '.'
RemovedPunct == PunctSet \ {"-", "."}

SubPunct(s) ==
    JoinStr([i \in 1..Len(s) |->
                IF Ch(s, i) \in RemovedPunct THEN "" ELSE Ch(s, i)],
            1, Len(s))

\* What a re.sub of lines 66, 68 or 72 leaves of the maximal run r: sub is
\* "url", "email" or "space"
SubRun(sub, r) ==
    IF IsSpace(Ch(r, 1))
    THEN IF sub = "space" THEN " " ELSE r
    ELSE IF sub = "url" THEN SubUrlRun(r)
    ELSE IF sub = "email" THEN SubEmailRun(r)
    ELSE r

\* re.sub of lines 66, 68 or 72, applied to each maximal run of s
MapRuns(s, sub) ==
    JoinStr([i \in 1..Len(s) |->
                IF IsRunStart(s, i)
                THEN SubRun(sub, SubSeq(s, i, RunEnd(s, i)))
                ELSE ""],
            1, Len(s))

\* str.strip
RECURSIVE LStripFrom(_, _)
LStripFrom(s, i) ==
    IF i <= Len(s) /\ IsSpace(Ch(s, i)) THEN LStripFrom(s, i + 1) ELSE i

RECURSIVE RStripTo(_, _)
RStripTo(s, i) ==
    IF i >= 1 /\ IsSpace(Ch(s, i)) THEN RStripTo(s, i - 1) ELSE i

Strip(s) ==
    LET lo == LStripFrom(s, 1)
        hi == RStripTo(s, Len(s))
    IN  IF lo > hi THEN "" ELSE SubSeq(s, lo, hi)

\* str.split(): the non-whitespace runs, in order
Split(s) ==
    JoinSeq([i \in 1..Len(s) |->
                IF IsRunStart(s, i) /\ ~IsSpace(Ch(s, i))
                THEN <<SubSeq(s, i, RunEnd(s, i))>>
                ELSE <<>>],
            1, Len(s))

Range(q) == {q[i] : i \in 1..Len(q)}

(***************************************************************************)
(* Constants                                                               *)
(***************************************************************************)

\* The value STRONG_ACTION_VERBS is bound to when the module is loaded
ActionVerbTable ==
    {"built", "developed", "created", "designed", "engineered", "architected",
     "optimized", "improved", "enhanced", "accelerated", "automated",
     "streamlined", "led", "managed", "coordinated", "orchestrated",
     "directed", "supervised", "achieved", "accomplished", "delivered",
     "executed", "implemented", "launched", "spearheaded", "pioneered",
     "transformed", "revolutionized", "innovated", "analyzed", "identified",
     "discovered", "resolved", "solved", "troubleshot", "increased",
     "decreased", "reduced", "maximized", "minimized", "scaled", "integrated",
     "consolidated", "merged", "combined", "unified", "aligned", "awarded",
     "recognized", "certified", "promoted", "selected", "chosen"}

\* The value RESUME_SECTIONS is bound to when the module is loaded: the keys
\* in the order of the dict, each r'\b(a1|a2|...)\b' as its alternatives
SectionTable ==
    << [name |-> "summary",
        pattern |-> {"summary", "objective", "profile", "about"}],
       [name |-> "skills",
        pattern |-> {"skills", "technical skills", "competencies",
                     "expertise"}],
       [name |-> "experience",
        pattern |-> {"experience", "work experience",
                     "professional experience", "employment"}],
       [name |-> "education",
        pattern |-> {"education", "academic", "degree", "certification",
                     "bachelors", "masters", "phd", "b.s", "b.a", "m.s",
                     "m.a"}],
       [name |-> "projects",
        pattern |-> {"projects", "portfolio", "personal projects",
                     "key projects"}] >>

(***************************************************************************)
(* Numbers (Python float, round)                                           *)
(***************************************************************************)

\* What a call that raises hands to its caller instead of a value
ZeroDivisionError == [raised |-> "ZeroDivisionError"]
ValueError == [raised |-> "ValueError"]

Raised(v) == "raised" \in DOMAIN v

\* Micro-points per point: the fixed-point unit of every score
Scale == 1000000

\* The integer nearest to num / den, a tie going to the even one (round())
RoundHalfEven(num, den) ==
    LET q == num \div den
        r == num % den
    IN  IF 2 * r < den THEN q
        ELSE IF 2 * r > den THEN q + 1
        ELSE IF q % 2 = 0 THEN q ELSE q + 1

\* round(x, 2) of a fixed-point x, as a fixed-point number
Round2(x) == RoundHalfEven(x, Scale \div 100) * (Scale \div 100)

(***************************************************************************)
(* Natural numbers beyond the machine word, for the products under the     *)
(* square root of the cosine: a number is the sequence of its digits in    *)
(* base Base, least significant first, without leading zeros.              *)
(***************************************************************************)

Base == 1000

RECURSIVE Carry(_, _, _)
\* The digits of the number whose k-th "digit", not yet below Base, is
\* d[k], from index i on, c being carried in
Carry(d, i, c) ==
    IF i > Len(d)
    THEN (IF c = 0 THEN <<>> ELSE <<c % Base>> \o Carry(d, i, c \div Base))
    ELSE <<(d[i] + c) % Base>> \o Carry(d, i + 1, (d[i] + c) \div Base)

RECURSIVE Trim(_)
Trim(d) ==
    IF d # <<>> /\ d[Len(d)] = 0 THEN Trim(SubSeq(d, 1, Len(d) - 1)) ELSE d

BigOf(n) == Trim(Carry(<<n>>, 1, 0))

BigAdd(a, b) ==
    Trim(Carry([k \in 1..Max(Len(a), Len(b)) |->
                   (IF k <= Len(a) THEN a[k] ELSE 0)
                   + (IF k <= Len(b) THEN b[k] ELSE 0)], 1, 0))

RECURSIVE SumTo(_, _)
SumTo(f, n) == IF n = 0 THEN 0 ELSE f[n] + SumTo(f, n - 1)

BigMul(a, b) ==
    IF a = <<>> \/ b = <<>> THEN <<>>
    ELSE Trim(Carry([k \in 1..(Len(a) + Len(b) - 1) |->
                       SumTo([i \in 1..Len(a) |->
                                 IF k + 1 - i >= 1 /\ k + 1 - i <= Len(b)
                                 THEN a[i] * b[k + 1 - i] ELSE 0],
                             Len(a))], 1, 0))

BigLeq(a, b) ==
    \/ Len(a) < Len(b)
    \/ /\ Len(a) = Len(b)
       /\ \/ a = b
          \/ \E k \in 1..Len(a) :
                /\ a[k] < b[k]
                /\ \A m \in (k + 1)..Len(a) : a[m] = b[m]

\* The largest k in lo..hi with k * k * den <= num (lo is one such)
RECURSIVE BigRoot(_, _, _, _)
BigRoot(num, den, lo, hi) ==
    IF lo = hi THEN lo
    ELSE LET mid == (lo + hi + 1) \div 2
         IN  IF BigLeq(BigMul(BigMul(BigOf(mid), BigOf(mid)), den), num)
             THEN BigRoot(num, den, mid, hi)
             ELSE BigRoot(num, den, lo, mid - 1)

(***************************************************************************)
(* Collections (Python list, set, Counter, sorted)                         *)
(***************************************************************************)

\* a < b in the order of str: by code point, a proper prefix first
StrLess(a, b) ==
    \E i \in 1..(Len(b)) :
        /\ \A k \in 1..(i - 1) : k <= Len(a) /\ Ch(a, k) = Ch(b, k)
        /\ \/ i = Len(a) + 1
           \/ i <= Len(a) /\ Ord(Ch(a, i)) < Ord(Ch(b, i))

\* Variant of Sorted: list(S) in decreasing order
SortedDescending(S) ==
    [r \in 1..Cardinality(S) |->
        CHOOSE w \in S : Cardinality({u \in S : StrLess(w, u)}) = r - 1]

\* sorted(list(S)) of a set of strings
Sorted(S) ==
    [r \in 1..Cardinality(S) |->
        CHOOSE w \in S : Cardinality({u \in S : StrLess(u, w)}) = r - 1]

\* Variant of most_common: list(Counter(words))[:n], the distinct words in the
\* order of first occurrence, whatever their count
most_common_unsorted(words, n) ==
    LET keys == Range(words)
        First(w) == CHOOSE i \in 1..Len(words) :
                        words[i] = w /\ \A k \in 1..(i - 1) : words[k] # w
    IN  [r \in 1..Min(n, Cardinality(keys)) |->
            CHOOSE w \in keys :
                Cardinality({u \in keys : First(u) < First(w)}) = r - 1]

\* Counter(words).most_common(n): the distinct words by decreasing count,
\* equal counts in the order of first occurrence, cut to n
most_common(words, n) ==
    LET keys == Range(words)
        Count(w) == Cardinality({i \in 1..Len(words) : words[i] = w})
        First(w) == CHOOSE i \in 1..Len(words) :
                        words[i] = w /\ \A k \in 1..(i - 1) : words[k] # w
        Before(u, w) ==
            \/ Count(u) > Count(w)
            \/ Count(u) = Count(w) /\ First(u) < First(w)
    IN  [r \in 1..Min(n, Cardinality(keys)) |->
            CHOOSE w \in keys :
                Cardinality({u \in keys : Before(u, w)}) = r - 1]

(***************************************************************************)
(* Utility functions                                                       *)
(***************************************************************************)

\* Variant of preprocess_text: without the final strip()
preprocess_text_unstripped(text) ==
    MapRuns(SubPunct(MapRuns(MapRuns(Lower(text), "url"), "email")), "space")

preprocess_text(text) ==
    LET t1 == Lower(text)
        t2 == MapRuns(t1, "url")
        t3 == MapRuns(t2, "email")
        t4 == SubPunct(t3)
    IN  Strip(MapRuns(t4, "space"))

\* Variant of extract_keywords: every word is kept, whatever its length
extract_keywords_any_length(text, min_length, max_keywords) ==
    most_common(Split(preprocess_text(text)), max_keywords)

extract_keywords(text, min_length, max_keywords) ==
    LET words    == Split(preprocess_text(text))
        filtered == SelectSeq(words, LAMBDA w : Len(w) >= min_length)
    IN  most_common(filtered, max_keywords)

(***************************************************************************)
(* Scoring functions                                                       *)
(***************************************************************************)

\* Variant of KeywordDivisor: len(jd_keywords), without the guard
KeywordDivisorUnguarded(jd_keywords) == Cardinality(jd_keywords)

\* len(jd_keywords) if jd_keywords else 1
KeywordDivisor(jd_keywords) ==
    IF jd_keywords # {} THEN Cardinality(jd_keywords) ELSE 1

score_keyword_matching(resume, jd) ==
    LET jd_keywords      == Range(extract_keywords(jd, 3, 40))
        resume_processed == preprocess_text(resume)
        resume_words     == Range(Split(resume_processed))
        matched_keywords == jd_keywords \cap resume_words
        missing_keywords == jd_keywords \ resume_words
        total_keywords   == KeywordDivisor(jd_keywords)
        matched          == Cardinality(matched_keywords)
    IN  IF total_keywords = 0 THEN ZeroDivisionError
        ELSE
        [score   |-> (matched * 40 * Scale) \div total_keywords,
         details |-> [matched_keywords  |-> Sorted(matched_keywords),
                      missing_keywords  |-> Sorted(missing_keywords),
                      total_jd_keywords |-> total_keywords,
                      matched_count     |-> matched,
                      \* round(match_ratio * 100, 2), in hundredths
                      match_percentage  |->
                          RoundHalfEven(matched * 10000, total_keywords)]]

\* \b of re at the gap before index i of s
WordBoundary(s, i) ==
    LET IsW(k) == k >= 1 /\ k <= Len(s) /\ IsWordChar(Ch(s, k))
    IN  IsW(i - 1) # IsW(i)

\* Variant of SearchWord: re.search(r'(a1|a2|...)', s), without the word
\* boundaries
SearchAnywhere(alts, s) ==
    \E a \in alts :
        \E i \in 1..(Len(s) - Len(a) + 1) : SubSeq(s, i, i + Len(a) - 1) = a

\* re.search(r'\b(a1|a2|...)\b', s) finds a match, alts the literal
\* alternatives a1, a2, ...
SearchWord(alts, s) ==
    \E a \in alts :
        \E i \in 1..(Len(s) - Len(a) + 1) :
            /\ SubSeq(s, i, i + Len(a) - 1) = a
            /\ WordBoundary(s, i)
            /\ WordBoundary(s, i + Len(a))

score_resume_sections(resume) ==
    LET sections       == RESUME_SECTIONS
        resume_lower   == Lower(resume)
        sections_found ==
            [k \in 1..Len(sections) |->
                [name  |-> sections[k].name,
                 found |-> SearchWord(sections[k].pattern, resume_lower)]]
        detected_count ==
            Cardinality({k \in 1..Len(sections) : sections_found[k].found})
    IN  [score   |-> detected_count * 4 * Scale,
         details |-> [sections_detected |-> sections_found,
                      detected_count    |-> detected_count,
                      total_sections    |-> Len(sections),
                      score_per_section |-> 4]]

\* f'{n:02d}' for 0 <= n < 100
TwoDigits(n) == IF n < 10 THEN "0" \o ToString(n) ELSE ToString(n)

\* f'{num/den:.2%}'
FormatPercent2(num, den) ==
    LET h == RoundHalfEven(num * 10000, den)
    IN  ToString(h \div 100) \o "." \o TwoDigits(h % 100) \o "%"

\* Index i of s holds the first non-whitespace character of its line, so
\* that r'^\s*' (MULTILINE) matches up to it
RECURSIVE LeadsLine(_, _)
LeadsLine(s, i) ==
    \/ i = 1
    \/ Ch(s, i - 1) = "\n"
    \/ IsSpace(Ch(s, i - 1)) /\ LeadsLine(s, i - 1)

\* Variant of BulletCount: r'^\s*[-*]', no whitespace asked after the bullet
BulletCountAnyFollower(s) ==
    Cardinality({i \in 1..Len(s) :
                    Ch(s, i) \in {"-", "*"} /\ LeadsLine(s, i)})

\* len(re.findall(r'^\s*[-*•]\s', s, re.MULTILINE)): every match holds
\* one bullet character, the first non-whitespace character of its line,
\* and the whitespace character after it
BulletCount(s) ==
    Cardinality({i \in 1..(Len(s) - 1) :
                    /\ Ch(s, i) \in {"-", "*"}
                    /\ IsSpace(Ch(s, i + 1))
                    /\ LeadsLine(s, i)})

\* Variant of WordCountPenalty: the two limits are penalised as well
WordCountPenaltyAtLimits(word_count) ==
    IF word_count <= 100 THEN "few"
    ELSE IF word_count >= 2000 THEN "many"
    ELSE ""

\* The penalty of lines 217-224: "few", "many" or "" (none)
WordCountPenalty(word_count) ==
    IF word_count < 100 THEN "few"
    ELSE IF word_count > 2000 THEN "many"
    ELSE ""

\* special_chars / len(resume_text) if resume_text else 0, as the pair
\* <<numerator, denominator>>
SpecialCharRatio(resume, special_chars) ==
    IF resume # "" THEN <<special_chars, Len(resume)>> ELSE <<0, 1>>

\* Variant of BulletBonus: bullet_count > 5
BulletBonusAboveFive(bullet_count) == bullet_count > 5

\* bullet_count >= 5
BulletBonus(bullet_count) == bullet_count >= 5

\* Variant of ClampFormatting: the score is returned as computed
NoClampFormatting(score) == score

\* max(0, min(10, score))
ClampFormatting(score) == Max(0, Min(10 * Scale, score))

score_formatting_heuristics(resume) ==
    LET word_count == Len(Split(resume))
        wc_penalty == WordCountPenalty(word_count)
        special_chars ==
            Cardinality({i \in 1..Len(resume) :
                            /\ Ch(resume, i) \in PunctSet
                            /\ Ch(resume, i) \notin {".", "-", ","}})
        ratio      == SpecialCharRatio(resume, special_chars)
        \* special_char_ratio > 0.15
        excessive  == ratio[1] * 100 > 15 * ratio[2]
        bullet_count == BulletCount(resume)
        bulleted   == BulletBonus(bullet_count)
        score      == 10 * Scale
                      - (IF wc_penalty # "" THEN 3 * Scale ELSE 0)
                      - (IF excessive THEN 2 * Scale ELSE 0)
                      + (IF bulleted THEN 2 * Scale ELSE 0)
        penalties  ==
            (IF wc_penalty = "few"
             THEN <<"Too few words (" \o ToString(word_count) \o "): -3pts">>
             ELSE IF wc_penalty = "many"
             THEN <<"Too many words (" \o ToString(word_count) \o "): -3pts">>
             ELSE <<>>)
            \o
            (IF excessive
             THEN <<"Excessive special characters ("
                    \o FormatPercent2(ratio[1], ratio[2]) \o "): -2pts">>
             ELSE <<>>)
        bonuses    ==
            IF bulleted
            THEN <<"Good use of bullet points (" \o ToString(bullet_count)
                   \o "): +2pts">>
            ELSE <<>>
    IN  IF ratio[2] = 0 THEN ZeroDivisionError
        ELSE
        [score   |-> ClampFormatting(score),
         details |-> [word_count         |-> word_count,
                      \* round(special_char_ratio, 4), in ten-thousandths
                      special_char_ratio |->
                          RoundHalfEven(ratio[1] * 10000, ratio[2]),
                      bullet_point_count |-> bullet_count,
                      penalties          |-> penalties,
                      bonuses            |-> bonuses]]

\* Variant of ActionVerbScore: without min(10, ...)
ActionVerbScoreUnbounded(action_verb_count) ==
    IF action_verb_count < 5
    THEN (action_verb_count * 6 * Scale) \div 5
    ELSE 6 * Scale + ((action_verb_count - 5) * Scale) \div 10

\* Lines 272-275: (count / 5) * 6 below 5 verbs, and from 5 on
\* min(10, 6 + (count - 5) / 10)
ActionVerbScore(action_verb_count) ==
    IF action_verb_count < 5
    THEN (action_verb_count * 6 * Scale) \div 5
    ELSE Min(10 * Scale,
             6 * Scale + ((action_verb_count - 5) * Scale) \div 10)

\* Variant of score_action_verbs: a verb is counted once, however often
\* it occurs
score_distinct_action_verbs(resume) ==
    [score   |-> ActionVerbScore(Cardinality(
                     Range(Split(preprocess_text(Lower(resume))))
                     \cap STRONG_ACTION_VERBS)),
     details |-> [action_verb_count |->
                      Cardinality(Range(Split(preprocess_text(Lower(resume))))
                                  \cap STRONG_ACTION_VERBS),
                  verbs_found       |->
                      Sorted(Range(Split(preprocess_text(Lower(resume))))
                             \cap STRONG_ACTION_VERBS),
                  benchmark         |->
                      "5-10+ strong action verbs for competitive resume"]]

score_action_verbs(resume) ==
    LET resume_lower == Lower(resume)
        words        == Split(preprocess_text(resume_lower))
        action_verb_count ==
            Cardinality({i \in 1..Len(words) :
                            words[i] \in STRONG_ACTION_VERBS})
        verbs_found  == SelectSeq(words,
                                  LAMBDA w : w \in STRONG_ACTION_VERBS)
    IN  [score   |-> ActionVerbScore(action_verb_count),
         details |-> [action_verb_count |-> action_verb_count,
                      verbs_found       |-> verbs_found,
                      benchmark         |->
                          "5-10+ strong action verbs for competitive resume"]]

(***************************************************************************)
(* TfidfVectorizer(max_features=100, ngram_range=(1, 2),                   *)
(* stop_words='english') and cosine_similarity of scikit-learn             *)
(***************************************************************************)

\* The words of scikit-learn's English stop-word list that the texts of
\* the model can hold
ENGLISH_STOP_WORDS ==
    {"a", "an", "the", "and", "or", "for", "of", "in", "on", "to", "with",
     "is", "are", "we", "you", "at", "as", "be", "by", "it", "about"}

\* re.findall(r'(?u)\b\w\w+\b', doc): the maximal runs of word characters
\* of length 2 or more
Tokenize(doc) ==
    JoinSeq([i \in 1..Len(doc) |->
                IF IsWordChar(Ch(doc, i)) /\ WordBoundary(doc, i)
                THEN LET e == CHOOSE j \in i..Len(doc) :
                                  WordBoundary(doc, j + 1)
                     IN  IF e > i THEN <<SubSeq(doc, i, e)>> ELSE <<>>
                ELSE <<>>],
            1, Len(doc))

\* The analyzer: tokens without the stop words, then their 1- and 2-grams
Analyze(doc) ==
    LET tokens == SelectSeq(Tokenize(doc),
                            LAMBDA w : w \notin ENGLISH_STOP_WORDS)
    IN  tokens \o [i \in 1..(Len(tokens) - 1) |->
                      tokens[i] \o " " \o tokens[i + 1]]

\* Number of occurrences of the term t
TermCount(terms, t) == Cardinality({i \in 1..Len(terms) : terms[i] = t})

\* max_features: the terms kept, those of highest count over the corpus
\* (equal counts in the order of the sorted vocabulary)
LimitFeatures(terms1, terms2, max_features) ==
    LET all   == Range(terms1) \cup Range(terms2)
        Tf(t) == TermCount(terms1, t) + TermCount(terms2, t)
    IN  IF Cardinality(all) <= max_features THEN all
        ELSE {t \in all :
                Cardinality({u \in all :
                                \/ Tf(u) > Tf(t)
                                \/ Tf(u) = Tf(t) /\ StrLess(u, t)})
                < max_features}

\* fit_transform raises ValueError("empty vocabulary; ...")
EmptyVocabulary(doc1, doc2) ==
    Analyze(doc1) = <<>> /\ Analyze(doc2) = <<>>

\* idf(t)^2 of a term of one of the two documents only,
\* (ln(3 / 2) + 1)^2 = 1.9753321..., as IdfSqNum / IdfSqDen; a term of
\* both documents has idf 1
IdfSqNum == 1041
IdfSqDen == 527

\* Steps of the fixed-point cosine: it is a multiple of 1 / CosScale
CosScale == 1000000

\* Variant of DotProduct: a term counts once in a row, however often it
\* occurs
DotProductOfPresence(terms1, terms2, Terms) ==
    Cardinality({k \in 1..Len(Terms) :
                    TermCount(terms1, Terms[k]) > 0
                    /\ TermCount(terms2, Terms[k]) > 0})

\* The dot product of the two rows before normalisation, over the terms
\* of both documents (idf 1): Terms is the sorted vocabulary
DotProduct(terms1, terms2, Terms) ==
    SumTo([k \in 1..Len(Terms) |->
              TermCount(terms1, Terms[k]) * TermCount(terms2, Terms[k])],
          Len(Terms))

\* IdfSqDen times the squared norm of the row of terms before
\* normalisation, other being the terms of the other document
SquaredNorm(terms, other, Terms) ==
    BigAdd(BigMul(BigOf(IdfSqDen),
                  BigOf(SumTo([k \in 1..Len(Terms) |->
                                  IF TermCount(other, Terms[k]) > 0
                                  THEN TermCount(terms, Terms[k])
                                       * TermCount(terms, Terms[k])
                                  ELSE 0],
                              Len(Terms)))),
           BigMul(BigOf(IdfSqNum),
                  BigOf(SumTo([k \in 1..Len(Terms) |->
                                  IF TermCount(other, Terms[k]) > 0
                                  THEN 0
                                  ELSE TermCount(terms, Terms[k])
                                       * TermCount(terms, Terms[k])],
                              Len(Terms)))))

\* dot / sqrt(norm1 * norm2) in units of 1 / CosScale, rounded down, norm1
\* and norm2 being IdfSqDen times the squared norms
CosineOf(dot, norm1, norm2) ==
    IF dot = 0 THEN 0
    ELSE BigRoot(BigMul(BigMul(BigOf(dot), BigOf(dot)),
                        BigMul(BigMul(BigOf(IdfSqDen), BigOf(IdfSqDen)),
                               BigMul(BigOf(CosScale), BigOf(CosScale)))),
                 BigMul(norm1, norm2), 0, CosScale)

\* The cosine of the tf-idf rows over the sorted vocabulary Terms
RowsCosine(terms1, terms2, Terms) ==
    CosineOf(DotProduct(terms1, terms2, Terms),
             SquaredNorm(terms1, terms2, Terms),
             SquaredNorm(terms2, terms1, Terms))

\* The cosine of the tf-idf rows of two analyzed documents
TermsCosine(terms1, terms2) ==
    RowsCosine(terms1, terms2, Sorted(LimitFeatures(terms1, terms2, 100)))

\* cosine_similarity(vectors[0], vectors[1])[0][0] of the l2-normalised
\* tf-idf rows of doc1 and doc2, in units of 1 / CosScale, rounded down
TfidfCosine(doc1, doc2) == TermsCosine(Analyze(doc1), Analyze(doc2))

\* f'{round(x, 1)}' of the float tenths / 10
FormatTenths(tenths) ==
    ToString(tenths \div 10) \o "." \o ToString(tenths % 10)

\* Variant of OverlapSimilarity: without the test of jd_words
OverlapSimilarityUnguarded(resume_words, jd_words) ==
    <<Cardinality(resume_words \cap jd_words), Cardinality(jd_words)>>

\* The similarity of the except branch, lines 323-327, as the pair
\* <<numerator, denominator>>
OverlapSimilarity(resume_words, jd_words) ==
    IF jd_words = {} THEN <<0, 1>>
    ELSE <<Cardinality(resume_words \cap jd_words), Cardinality(jd_words)>>

\* Lines 331-335: the score and the details, similarity in units of
\* 1 / CosScale; caught tells that the except branch ran
SemanticReturn(caught, similarity, overlap, no_jd_words) ==
    [score   |-> IF ~caught THEN similarity * 10 * (Scale \div CosScale)
                 ELSE Min(10 * Scale,
                          (overlap[1] * 10 * Scale) \div overlap[2]),
     details |-> [\* round(similarity, 4), in ten-thousandths
                  similarity_score |->
                      RoundHalfEven(similarity, CosScale \div 10000),
                  method         |-> "TF-IDF Cosine Similarity",
                  interpretation |->
                      \* similarity is the int 0, not a float, when
                      \* jd_words is empty
                      (IF caught /\ no_jd_words THEN "0"
                       ELSE FormatTenths(
                                RoundHalfEven(similarity,
                                              CosScale \div 1000)))
                      \o "% semantic overlap"]]

\* Lines 310-329: the try branch, or the except branch when fit_transform
\* raised (caught); overlap is the similarity of the except branch
SemanticBranch(caught, resume_processed, jd_processed, overlap, no_jd) ==
    IF caught /\ overlap[2] = 0 THEN ZeroDivisionError
    ELSE SemanticReturn(caught,
                        IF ~caught
                        THEN TfidfCosine(resume_processed, jd_processed)
                        ELSE (overlap[1] * CosScale) \div overlap[2],
                        overlap, no_jd)

\* Lines 297-329 on the preprocessed texts (try) and on the two word sets
\* (except)
SemanticOf(resume_processed, jd_processed, resume_words, jd_words) ==
    SemanticBranch(EmptyVocabulary(resume_processed, jd_processed),
                   resume_processed, jd_processed,
                   OverlapSimilarity(resume_words, jd_words), jd_words = {})

score_semantic_similarity(resume, jd) ==
    SemanticOf(preprocess_text(resume), preprocess_text(jd),
               Range(Split(preprocess_text(resume))),
               Range(Split(preprocess_text(jd))))

(***************************************************************************)
(* Main scoring engine                                                     *)
(***************************************************************************)

\* components[name] of a dict held as the sequence of its items
Item(items, name) ==
    items[CHOOSE k \in 1..Len(items) : items[k].name = name]

\* Variant of SumOfScores: the semantic score is left out
SumWithoutSemantic(keyword, section, formatting, action_verb, semantic) ==
    keyword + section + formatting + action_verb

\* Lines 366-372: the sum of what the five scorers returned
SumOfScores(keyword, section, formatting, action_verb, semantic) ==
    keyword + section + formatting + action_verb + semantic

\* Lines 366-406 on what the five scorers returned; an exception of a
\* scorer is the outcome of the call
AtsResult(keyword, section, formatting, action, semantic) ==
    IF Raised(keyword) THEN keyword
    ELSE IF Raised(formatting) THEN formatting
    ELSE IF Raised(semantic) THEN semantic
    ELSE
    [final_score |->
        Round2(Max(0, Min(100 * Scale,
                          SumOfScores(keyword.score, section.score,
                                      formatting.score, action.score,
                                      semantic.score)))),
     components  |->
        << [name    |-> "keyword_matching",
            score   |-> Round2(keyword.score),
            weight  |-> "40%",
            details |-> keyword.details],
           [name    |-> "resume_sections",
            score   |-> Round2(section.score),
            weight  |-> "20%",
            details |-> section.details],
           [name    |-> "formatting_heuristics",
            score   |-> Round2(formatting.score),
            weight  |-> "10%",
            details |-> formatting.details],
           [name    |-> "action_verbs",
            score   |-> Round2(action.score),
            weight  |-> "10%",
            details |-> action.details],
           [name    |-> "semantic_similarity",
            score   |-> Round2(semantic.score),
            weight  |-> "10%",
            details |-> semantic.details] >>]

calculate_ats_score(resume, jd) ==
    AtsResult(score_keyword_matching(resume, jd),
              score_resume_sections(resume),
              score_formatting_heuristics(resume),
              score_action_verbs(resume),
              score_semantic_similarity(resume, jd))

(***************************************************************************)
(* Improvement suggestions                                                 *)
(***************************************************************************)

\* ', '.join(q)
CommaJoin(q) == JoinWith(q, ", ")

\* f'{x}' of a float rounded to 2 decimals, x a multiple of Scale / 100
FormatScore(x) ==
    LET h == x \div (Scale \div 100)
    IN  ToString(h \div 100) \o "."
        \o (IF h % 10 = 0 THEN ToString((h % 100) \div 10)
            ELSE TwoDigits(h % 100))

\* generate_improvement_suggestions, lines 411-484.  The texts are those of
\* the source without the pictograph that leads each of them.

\* Variant of KeywordSuggestion: missing_keywords[:1]
KeywordSuggestionOfOne(keyword_comp) ==
    IF /\ keyword_comp.score < 20 * Scale
       /\ keyword_comp.details.missing_keywords # <<>>
    THEN <<"Add missing keywords: "
           \o keyword_comp.details.missing_keywords[1]
           \o ". These terms are in the JD but not in your resume.">>
    ELSE <<>>

\* Lines 426-432
KeywordSuggestion(keyword_comp) ==
    IF /\ keyword_comp.score < 20 * Scale
       /\ keyword_comp.details.missing_keywords # <<>>
    THEN <<"Add missing keywords: "
           \o CommaJoin(SubSeq(keyword_comp.details.missing_keywords, 1,
                               Min(10, Len(keyword_comp.details
                                               .missing_keywords))))
           \o ". These terms are in the JD but not in your resume.">>
    ELSE <<>>

\* Line 437: [s for s, found in sections_detected.items() if not found]
MissingSections(sections_detected) ==
    JoinSeq([k \in 1..Len(sections_detected) |->
                IF ~sections_detected[k].found
                THEN <<sections_detected[k].name>> ELSE <<>>],
            1, Len(sections_detected))

\* Lines 435-442
SectionSuggestion(section_comp) ==
    IF /\ section_comp.score < 20 * Scale
       /\ MissingSections(section_comp.details.sections_detected) # <<>>
    THEN <<"Add missing sections: "
           \o CommaJoin(MissingSections(
                            section_comp.details.sections_detected))
           \o ". These are crucial for ATS parsing.">>
    ELSE <<>>

\* Variant of PenaltySuggestions: the last penalty first
PenaltySuggestionsReversed(penalties) ==
    [k \in 1..Len(penalties) |-> penalties[Len(penalties) + 1 - k]]

\* Lines 446-449: one suggestion for each penalty, in the order of the list
PenaltySuggestions(penalties) ==
    [k \in 1..Len(penalties) |-> penalties[k]]

\* Variant of ExpandSuggestion: nothing when a penalty tells the same
ExpandSuggestionOnce(format_comp) ==
    IF /\ format_comp.details.word_count < 100
       /\ format_comp.details.penalties = <<>>
    THEN <<"Expand your resume content. Current: "
           \o ToString(format_comp.details.word_count)
           \o " words. Target: 150-400 words per section.">>
    ELSE <<>>

\* Lines 451-456
ExpandSuggestion(format_comp) ==
    IF format_comp.details.word_count < 100
    THEN <<"Expand your resume content. Current: "
           \o ToString(format_comp.details.word_count)
           \o " words. Target: 150-400 words per section.">>
    ELSE <<>>

\* Lines 459-464
ActionVerbSuggestion(action_comp) ==
    IF action_comp.score < 6 * Scale
    THEN <<"Use stronger action verbs. Current count: "
           \o ToString(action_comp.details.action_verb_count)
           \o ". Example verbs: developed, optimized, architected, led, accelerated.">>
    ELSE <<>>

\* Lines 467-472
SemanticSuggestion(semantic_comp) ==
    IF semantic_comp.score < 5 * Scale
    THEN <<"Low semantic match with JD. Try to incorporate more role-specific terminology and technical context from the job description.">>
    ELSE <<>>

\* Variant of OverallSuggestion: the comparison is the other way round
OverallSuggestionAbove(result, threshold) ==
    IF result.final_score > threshold
    THEN <<"Overall ATS Score: " \o FormatScore(result.final_score)
           \o "/100. Focus on the areas above to improve match with this job description.">>
    ELSE <<>>

\* Lines 475-479
OverallSuggestion(result, threshold) ==
    IF result.final_score < threshold
    THEN <<"Overall ATS Score: " \o FormatScore(result.final_score)
           \o "/100. Focus on the areas above to improve match with this job description.">>
    ELSE <<>>

\* Lines 481-484: suggestions if suggestions else [the positive message]
OrGreatScore(suggestions, result) ==
    IF suggestions # <<>> THEN suggestions
    ELSE <<"Great ATS Score: " \o FormatScore(result.final_score)
           \o "/100! Your resume is well-optimized for this job description.">>

generate_improvement_suggestions(result, threshold) ==
    OrGreatScore(
        KeywordSuggestion(Item(result.components, "keyword_matching"))
        \o SectionSuggestion(Item(result.components, "resume_sections"))
        \o PenaltySuggestions(
               Item(result.components, "formatting_heuristics")
                   .details.penalties)
        \o ExpandSuggestion(Item(result.components, "formatting_heuristics"))
        \o ActionVerbSuggestion(Item(result.components, "action_verbs"))
        \o SemanticSuggestion(Item(result.components, "semantic_similarity"))
        \o OverallSuggestion(result, threshold),
        result)

(***************************************************************************)
(* The callers: example_ats_usage.py and app.py call calculate_ats_score   *)
(* and then generate_improvement_suggestions on what it returned; the      *)
(* scorers are functions of the module and can be called directly.         *)
(***************************************************************************)

\* Calls of calculate_ats_score in one run
MaxCalls == 2

\* w * n
Repeat(w, n) == JoinStr([i \in 1..n |-> w], 1, n)

\* The texts of at most n words of V, a space between two words
TextsOf(V, n) ==
    {JoinWith(q, " ") : q \in UNION {[1..k -> V] : k \in 0..n}}

\* Empty and whitespace-only texts
BlankTexts == {"", " ", "\n\t "}

\* A resume of 100 words that holds every section, 95 action verbs and no
\* special character
FullResume ==
    "summary skills experience education projects " \o Repeat("led ", 95)

\* FullResume after five bullet lines
BulletedResume == Repeat("- led\n", 5) \o FullResume

ShortResumes ==
    {"John Doe Python Developer",
     "the",
     "Summary\nSkills\nExperience\nEducation\nProjects",
     "built developed created designed led",
     "!!! ### python"}

ShortJobDescriptions ==
    {"Python developer needed",
     "the and for",
     "a an to",
     "python python java sql"}

\* The arguments of the calls of Spec
Inputs ==
    ((BlankTexts \cup ShortResumes) \X (BlankTexts \cup ShortJobDescriptions))
    \cup {<<FullResume, FullResume>>,
          <<BulletedResume, "summary skills led">>,
          <<FullResume, "Python developer needed">>}

InitOf(inputs) ==
    /\ \E in \in inputs : resume_text = in[1] /\ jd_text = in[2]
    /\ STRONG_ACTION_VERBS = ActionVerbTable
    /\ RESUME_SECTIONS = SectionTable
    /\ last = [fn |-> "", value |-> None]
    /\ ats_result = None
    /\ first_result = None
    /\ calls = 0
    /\ running = <<>>

Init == InitOf(Inputs)

Returns(fn, value) == last' = [fn |-> fn, value |-> value]

CallScoreKeywordMatching ==
    /\ Returns("score_keyword_matching",
               score_keyword_matching(resume_text, jd_text))
    /\ UNCHANGED <<resume_text, jd_text, STRONG_ACTION_VERBS,
                   RESUME_SECTIONS, ats_result, first_result, calls, running>>

CallScoreResumeSections ==
    /\ Returns("score_resume_sections", score_resume_sections(resume_text))
    /\ UNCHANGED <<resume_text, jd_text, STRONG_ACTION_VERBS,
                   RESUME_SECTIONS, ats_result, first_result, calls, running>>

CallScoreFormattingHeuristics ==
    /\ Returns("score_formatting_heuristics",
               score_formatting_heuristics(resume_text))
    /\ UNCHANGED <<resume_text, jd_text, STRONG_ACTION_VERBS,
                   RESUME_SECTIONS, ats_result, first_result, calls, running>>

\* Variant of CallScoreActionVerbs: the verbs found are taken out of
\* STRONG_ACTION_VERBS
CallScoreActionVerbsConsuming ==
    /\ Returns("score_action_verbs", score_action_verbs(resume_text))
    /\ STRONG_ACTION_VERBS' =
            STRONG_ACTION_VERBS
            \ Range(score_action_verbs(resume_text).details.verbs_found)
    /\ UNCHANGED <<resume_text, jd_text, RESUME_SECTIONS, ats_result,
                   first_result, calls, running>>

CallScoreActionVerbs ==
    /\ Returns("score_action_verbs", score_action_verbs(resume_text))
    /\ UNCHANGED <<resume_text, jd_text, STRONG_ACTION_VERBS,
                   RESUME_SECTIONS, ats_result, first_result, calls, running>>

CallScoreSemanticSimilarity ==
    /\ Returns("score_semantic_similarity",
               score_semantic_similarity(resume_text, jd_text))
    /\ UNCHANGED <<resume_text, jd_text, STRONG_ACTION_VERBS,
                   RESUME_SECTIONS, ats_result, first_result, calls, running>>

\* ats_result = calculate_ats_score(resume_text, jd_text): the name is
\* bound unless the call raised
Assigns(result) ==
    /\ last' = [fn |-> "calculate_ats_score", value |-> result]
    /\ ats_result' = IF Raised(result) THEN ats_result ELSE <<result>>
    /\ first_result' = IF calls = 0 THEN <<result>> ELSE first_result

CallCalculateAtsScore ==
    /\ calls < MaxCalls
    /\ Assigns(calculate_ats_score(resume_text, jd_text))
    /\ calls' = calls + 1
    /\ UNCHANGED <<resume_text, jd_text, STRONG_ACTION_VERBS,
                   RESUME_SECTIONS, running>>

CallGenerateImprovementSuggestions ==
    /\ ats_result # None
    /\ Returns("generate_improvement_suggestions",
               generate_improvement_suggestions(ats_result[1], 75 * Scale))
    /\ UNCHANGED <<resume_text, jd_text, STRONG_ACTION_VERBS,
                   RESUME_SECTIONS, ats_result, first_result, calls, running>>

Next ==
    \/ CallScoreKeywordMatching
    \/ CallScoreResumeSections
    \/ CallScoreFormattingHeuristics
    \/ CallScoreActionVerbs
    \/ CallScoreSemanticSimilarity
    \/ CallCalculateAtsScore
    \/ CallGenerateImprovementSuggestions

Spec == Init /\ [][Next]_vars

(***************************************************************************)
(* score_keyword_matching on the texts of a few words                      *)
(***************************************************************************)

MaxResumeWords == 2
MaxJdWords == 3

ResumeVocabulary == {"python", "JAVA", "go"}
JdVocabulary == {"Python", "java,", "sql.", "go"}

KeywordInputs ==
    TextsOf(ResumeVocabulary, MaxResumeWords)
    \X TextsOf(JdVocabulary, MaxJdWords)

SpecKeyword == InitOf(KeywordInputs) /\ [][CallScoreKeywordMatching]_vars

(***************************************************************************)
(* extract_keywords on the texts of a few words, with its two parameters   *)
(***************************************************************************)

MaxTextWords == 3
MaxKeywords == 3

\* Words of 1, 3 and 4 characters, one of them in two spellings
KeywordVocabulary == {"a", "sql", "Java", "java,"}

\* Values of min_length: below every word, the default, and above
MinLengths == {0, 1, 3, 4, 5}

ExtractInputs == {""} \X TextsOf(KeywordVocabulary, MaxTextWords)

\* extract_keywords(jd_text, min_length, max_keywords), as line 131 calls it
CallExtractKeywords ==
    /\ \E min_length \in MinLengths, max_keywords \in 0..MaxKeywords :
          last' = [fn    |-> "extract_keywords",
                   args  |-> [min_length   |-> min_length,
                              max_keywords |-> max_keywords],
                   value |-> extract_keywords(jd_text, min_length,
                                              max_keywords)]
    /\ UNCHANGED <<resume_text, jd_text, STRONG_ACTION_VERBS,
                   RESUME_SECTIONS, ats_result, first_result, calls, running>>

SpecExtract == InitOf(ExtractInputs) /\ [][CallExtractKeywords]_vars

(***************************************************************************)
(* preprocess_text on the texts of a few pieces                            *)
(***************************************************************************)

MaxPieces == 3

\* Parts of words, of URLs and of e-mail addresses, punctuation that is
\* removed or kept, and whitespace
Pieces == {"ht", "tpx", "ww", "w.", "X", "@", "!", "-", " ", "\n\t"}

PiecedTexts ==
    {JoinStr(q, 1, Len(q)) : q \in UNION {[1..k -> Pieces] : k \in 0..MaxPieces}}

PreprocessInputs == PiecedTexts \X {""}

\* preprocess_text(resume_text), as line 134 calls it
CallPreprocessText ==
    /\ Returns("preprocess_text", preprocess_text(resume_text))
    /\ UNCHANGED <<resume_text, jd_text, STRONG_ACTION_VERBS,
                   RESUME_SECTIONS, ats_result, first_result, calls, running>>

SpecPreprocess == InitOf(PreprocessInputs) /\ [][CallPreprocessText]_vars

(***************************************************************************)
(* score_resume_sections on resumes of header lines                        *)
(***************************************************************************)

\* Times a header is written on its line
MaxRepeat == 2

\* One line each: the five literal headers, a degree, and two words that
\* hold a section name without a word boundary around it
HeaderWords ==
    <<"Summary", "SKILLS", "Experience:", "education", "(Projects)",
      "B.S.", "skillset", "my_projects">>

\* The lines of the chosen headers, each written r times
HeaderResume(chosen, r) ==
    JoinStr([k \in 1..Len(HeaderWords) |->
                IF k \in chosen THEN Repeat(HeaderWords[k] \o " ", r) \o "\n"
                ELSE ""],
            1, Len(HeaderWords))

SectionInputs ==
    {<<HeaderResume(chosen, r), "">> :
        chosen \in SUBSET (1..Len(HeaderWords)), r \in 1..MaxRepeat}

SpecSections == InitOf(SectionInputs) /\ [][CallScoreResumeSections]_vars

(***************************************************************************)
(* score_formatting_heuristics on resumes of bullet lines, a line of       *)
(* special characters and filler words                                     *)
(***************************************************************************)

MaxBullets == 6

\* Numbers of filler words: around the two limits of the word count
WordCounts == {0, 50, 98, 99, 100, 1999, 2000, 2001, 2500}

\* Numbers of special characters on their line
BangCounts == {0, 10, 40}

\* Lines that start with a bullet character, and one that does not
BulletLines == {"- item\n", "  * item\n", "item - item\n"}

FormattingResume(line, b, k, n) ==
    Repeat(line, b)
    \o (IF k = 0 THEN "" ELSE Repeat("!", k) \o "\n")
    \o Repeat("w ", n)

FormattingInputs ==
    {<<FormattingResume(line, b, k, n), "">> :
        line \in BulletLines, b \in 0..MaxBullets, k \in BangCounts,
        n \in WordCounts}

SpecFormatting ==
    InitOf(FormattingInputs) /\ [][CallScoreFormattingHeuristics]_vars

(***************************************************************************)
(* score_formatting_heuristics on resumes of lines that start, or not,     *)
(* with a bullet character                                                 *)
(***************************************************************************)

\* Lines whose first character after the leading whitespace is a bullet
\* character, followed by whitespace or not, and lines of another start
LineKinds == {"- a\n", "-a\n", "  * b\n", "*\n", " --\n", "x - y\n", " \n"}

\* Ends of the text without a line feed
LastLines == {"", "-", " * c"}

BulletResume(line1, a, line2, b, end) ==
    Repeat(line1, a) \o Repeat(line2, b) \o end

BulletInputs ==
    {<<BulletResume(line1, a, line2, b, end), "">> :
        line1 \in LineKinds, a \in 0..MaxBullets,
        line2 \in LineKinds, b \in 0..2, end \in LastLines}

SpecBullets == InitOf(BulletInputs) /\ [][CallScoreFormattingHeuristics]_vars

(***************************************************************************)
(* score_action_verbs on resumes of a repeated action verb                 *)
(***************************************************************************)

\* Numbers of action verbs: around the limits 5, 15 and 45 of the score
VerbCounts == {0, 1, 2, 4, 5, 6, 14, 15, 16, 44, 45, 46, 60}

\* An action verb as the resume writes it
VerbSpellings == {"led", "Built,", "(CREATED)"}

\* What follows each verb: nothing, a word that is no action verb, a word
\* that holds one
VerbFillers == {"", "the ", "leading misled "}

VerbResume(verb, filler, n) == Repeat(verb \o " " \o filler, n)

ActionVerbInputs ==
    {<<VerbResume(verb, filler, n), "">> :
        verb \in VerbSpellings, filler \in VerbFillers, n \in VerbCounts}

SpecActionVerbs == InitOf(ActionVerbInputs) /\ [][CallScoreActionVerbs]_vars

(***************************************************************************)
(* score_semantic_similarity on the texts of a few words                   *)
(***************************************************************************)

MaxSemanticWords == 2

\* A stop word, a word of one character, a term, and punctuation that
\* preprocess_text removes
SemanticVocabulary == {"the", "a", "Python", "!!!"}

SemanticInputs ==
    TextsOf(SemanticVocabulary, MaxSemanticWords)
    \X TextsOf(SemanticVocabulary, MaxSemanticWords)

SpecSemantic ==
    InitOf(SemanticInputs) /\ [][CallScoreSemanticSimilarity]_vars

\* score_semantic_similarity when fit_transform or cosine_similarity raises
\* an exception other than the ValueError of the empty vocabulary (a
\* MemoryError, say): except Exception catches it as well
CallScoreSemanticSimilarityFailing ==
    /\ Returns("score_semantic_similarity",
               SemanticBranch(TRUE, preprocess_text(resume_text),
                              preprocess_text(jd_text),
                              OverlapSimilarity(
                                  Range(Split(preprocess_text(resume_text))),
                                  Range(Split(preprocess_text(jd_text)))),
                              Range(Split(preprocess_text(jd_text))) = {}))
    /\ UNCHANGED <<resume_text, jd_text, STRONG_ACTION_VERBS,
                   RESUME_SECTIONS, ats_result, first_result, calls, running>>

SemanticNext ==
    \/ CallScoreSemanticSimilarity
    \/ CallScoreSemanticSimilarityFailing

\* The calls of score_semantic_similarity, the try block failing or not
SpecSemanticFailing == InitOf(SemanticInputs) /\ [][SemanticNext]_vars

(***************************************************************************)
(* generate_improvement_suggestions after calculate_ats_score, as app.py   *)
(* and example_ats_usage.py call them                                      *)
(***************************************************************************)

\* A text of 100 words that holds every section and no action verb
NoVerbResume ==
    "summary skills experience education projects " \o Repeat("w ", 95)

\* A text of 100 words that holds one section and five action verbs
OneSectionResume ==
    "the and summary built developed created designed led "
    \o Repeat("w ", 92)

SuggestionInputs ==
    (ShortResumes \X ShortJobDescriptions)
    \cup {<<"", "">>,
          <<FullResume, FullResume>>,
          <<FullResume, "python java">>,
          <<NoVerbResume, NoVerbResume>>,
          <<OneSectionResume, "the and for are">>}

SuggestionNext ==
    \/ CallCalculateAtsScore
    \/ CallGenerateImprovementSuggestions

SpecSuggestions == InitOf(SuggestionInputs) /\ [][SuggestionNext]_vars

(***************************************************************************)
(* Concurrent calls of calculate_ats_score, one scorer invocation a step   *)
(***************************************************************************)

MaxThreads == 2

\* The five scorers that lines 359-363 invoke
Scorers ==
    {"keyword_matching", "resume_sections", "formatting_heuristics",
     "action_verbs", "semantic_similarity"}

\* The arguments of the concurrent calls, those of the first threads first
ConcurrentInputs ==
    << <<"led", "led">>,
       <<"Skills led", "a">>,
       <<"", "led">> >>

\* What lines 359-363 bind: the value the scorer returns for the arguments
ScoreOf(name, resume, jd) ==
    CASE name = "keyword_matching"      -> score_keyword_matching(resume, jd)
      [] name = "resume_sections"       -> score_resume_sections(resume)
      [] name = "formatting_heuristics" -> score_formatting_heuristics(resume)
      [] name = "action_verbs"          -> score_action_verbs(resume)
      [] name = "semantic_similarity"
           -> score_semantic_similarity(resume, jd)

\* Lines 366-406 of the call c once its five scorers returned
ResultOf(c) ==
    AtsResult(c.scores["keyword_matching"][1],
              c.scores["resume_sections"][1],
              c.scores["formatting_heuristics"][1],
              c.scores["action_verbs"][1],
              c.scores["semantic_similarity"][1])

\* Every call is entered, none of its scorers invoked yet
InitConcurrent ==
    /\ resume_text = ""
    /\ jd_text = ""
    /\ STRONG_ACTION_VERBS = ActionVerbTable
    /\ RESUME_SECTIONS = SectionTable
    /\ last = [fn |-> "", value |-> None]
    /\ ats_result = None
    /\ first_result = None
    /\ calls = 0
    /\ running = [t \in 1..MaxThreads |->
                    [resume      |-> ConcurrentInputs[t][1],
                     jd          |-> ConcurrentInputs[t][2],
                     scores      |-> [name \in Scorers |-> None],
                     result      |-> None,
                     suggestions |-> None]]

\* Variant of RunScorer: score_action_verbs takes the verbs it found out of
\* STRONG_ACTION_VERBS
RunScorerConsuming(t, name) ==
    /\ running[t].scores[name] = None
    /\ running' = [running EXCEPT ![t].scores[name] =
                      <<ScoreOf(name, running[t].resume, running[t].jd)>>]
    /\ STRONG_ACTION_VERBS' =
          IF name = "action_verbs"
          THEN STRONG_ACTION_VERBS
               \ Range(score_action_verbs(running[t].resume)
                           .details.verbs_found)
          ELSE STRONG_ACTION_VERBS
    /\ UNCHANGED <<resume_text, jd_text, RESUME_SECTIONS, last, ats_result,
                   first_result, calls>>

\* One of lines 359-363 in the call of thread t: the scorer reads its
\* arguments and the module tables, and its value is bound to a local name
RunScorer(t, name) ==
    /\ running[t].scores[name] = None
    /\ running' = [running EXCEPT ![t].scores[name] =
                      <<ScoreOf(name, running[t].resume, running[t].jd)>>]
    /\ UNCHANGED <<resume_text, jd_text, STRONG_ACTION_VERBS,
                   RESUME_SECTIONS, last, ats_result, first_result, calls>>

\* Lines 366-406 in the call of thread t
ReturnResult(t) ==
    /\ running[t].result = None
    /\ \A name \in Scorers : running[t].scores[name] # None
    /\ running' = [running EXCEPT ![t].result = <<ResultOf(running[t])>>]
    /\ UNCHANGED <<resume_text, jd_text, STRONG_ACTION_VERBS,
                   RESUME_SECTIONS, last, ats_result, first_result, calls>>

\* generate_improvement_suggestions on the result of the call of thread t
SuggestFor(t) ==
    /\ running[t].result # None
    /\ ~Raised(running[t].result[1])
    /\ running[t].suggestions = None
    /\ running' = [running EXCEPT ![t].suggestions =
                      <<generate_improvement_suggestions(
                            running[t].result[1], 75 * Scale)>>]
    /\ UNCHANGED <<resume_text, jd_text, STRONG_ACTION_VERBS,
                   RESUME_SECTIONS, last, ats_result, first_result, calls>>

ConcurrentNext ==
    \E t \in 1..MaxThreads :
        \/ \E name \in Scorers : RunScorer(t, name)
        \/ ReturnResult(t)
        \/ SuggestFor(t)

SpecConcurrent == InitConcurrent /\ [][ConcurrentNext]_vars

(***************************************************************************)
(* Properties of calculate_ats_score                                       *)
(***************************************************************************)

\* The value the last call returned
Returned(fn) == last.fn = fn /\ ~Raised(last.value)

ComponentNames ==
    <<"keyword_matching", "resume_sections", "formatting_heuristics",
      "action_verbs", "semantic_similarity">>

\* The declared maximum of a component, in points
MaxOf(name) ==
    IF name = "keyword_matching" THEN 40
    ELSE IF name = "resume_sections" THEN 20
    ELSE 10

\* The sum of the scores recorded in the components of a result
RecordedSum(r) ==
    SumTo([k \in 1..Len(r.components) |-> r.components[k].score],
          Len(r.components))

EveryMaximumReached(r) ==
    \A k \in 1..Len(r.components) :
        r.components[k].score = MaxOf(r.components[k].name) * Scale

IsBlank(text) == \A i \in 1..Len(text) : IsSpace(Ch(text, i))

\* C1: whatever the two texts, calculate_ats_score returns a final_score
\* between 0 and 100 and five components, each with a score between 0 and
\* its declared maximum (40, 20, 10, 10, 10).
C1_ScoresWithinBounds ==
    last.fn = "calculate_ats_score" =>
        /\ ~Raised(last.value)
        /\ last.value.final_score >= 0
        /\ last.value.final_score <= 100 * Scale
        /\ Len(last.value.components) = Len(ComponentNames)
        /\ \A k \in 1..Len(ComponentNames) :
              LET c == last.value.components[k]
              IN  /\ c.name = ComponentNames[k]
                  /\ c.score >= 0
                  /\ c.score <= MaxOf(c.name) * Scale

\* A resume whose bullet bonus would take the formatting score past its
\* maximum has been scored
C1_BonusAtTheMaximum ==
    /\ Returned("calculate_ats_score")
    /\ LET c == Item(last.value.components, "formatting_heuristics")
       IN  /\ c.score = 10 * Scale
           /\ c.details.bonuses # <<>>
           /\ c.details.penalties = <<>>

\* C2: two calls of calculate_ats_score on the same two texts return the
\* same result, whichever calls were made between them: same final_score,
\* same components in the same order, same details.
C2_SameTextsSameResult ==
    first_result # None /\ ats_result # None => ats_result = first_result

\* The texts have been scored a second time, with a score above 0
C2_ScoredTwice ==
    /\ calls >= 2
    /\ last.fn = "calculate_ats_score"
    /\ ats_result # None
    /\ ats_result[1].final_score > 0
    /\ ats_result = first_result

\* C3 as stated: final_score is the sum of the five recorded component
\* scores, clamped to [0, 100].
C3_FinalIsRecordedSum ==
    Returned("calculate_ats_score") =>
        last.value.final_score
            = Max(0, Min(100 * Scale, RecordedSum(last.value)))

\* C3: final_score is the sum of the five scores as the scorers returned
\* them, clamped to [0, 100] and then rounded to 2 decimals; it is within
\* 0.01 of the sum of the five recorded scores, which are rounded one by
\* one.
C3_FinalIsRoundedSum ==
    Returned("calculate_ats_score") =>
        LET unrounded ==
                score_keyword_matching(resume_text, jd_text).score
                + score_resume_sections(resume_text).score
                + score_formatting_heuristics(resume_text).score
                + score_action_verbs(resume_text).score
                + score_semantic_similarity(resume_text, jd_text).score
            final == last.value.final_score
            recorded == RecordedSum(last.value)
        IN  /\ final = Round2(Max(0, Min(100 * Scale, unrounded)))
            /\ final - recorded <= Scale \div 100
            /\ recorded - final <= Scale \div 100

\* A result whose final_score is not the sum of its recorded scores
C3_SumsDiffer ==
    /\ Returned("calculate_ats_score")
    /\ last.value.final_score # RecordedSum(last.value)

\* C4 as stated: a resume that reaches the maximum of every component
\* receives final_score 100.
C4_EveryMaximumGives100 ==
    ats_result # None /\ EveryMaximumReached(ats_result[1]) =>
        ats_result[1].final_score = 100 * Scale

\* C4: the maxima of the five components add up to 90: no final_score is
\* above 90, and a resume that reaches the maximum of every component
\* receives final_score 90.
C4_EveryMaximumGives90 ==
    ats_result # None =>
        /\ SumTo([k \in 1..Len(ComponentNames) |->
                     MaxOf(ComponentNames[k])],
                 Len(ComponentNames)) = 90
        /\ ats_result[1].final_score <= 90 * Scale
        /\ EveryMaximumReached(ats_result[1]) =>
               ats_result[1].final_score = 90 * Scale

\* A resume that reaches the maximum of every component has been scored
C4_AllMaximaReached ==
    /\ ats_result # None
    /\ EveryMaximumReached(ats_result[1])
    /\ resume_text = FullResume

\* C5: when the resume, the job description or both are empty or hold only
\* whitespace, calculate_ats_score and the five scorers return a score
\* within its bounds and raise nothing.
C5_BlankTextsRaiseNothing ==
    IsBlank(resume_text) \/ IsBlank(jd_text) =>
        /\ last.fn = "calculate_ats_score" =>
              /\ ~Raised(last.value)
              /\ last.value.final_score >= 0
              /\ last.value.final_score <= 100 * Scale
        /\ last.fn = "score_keyword_matching" =>
              /\ ~Raised(last.value)
              /\ last.value.score >= 0
              /\ last.value.score <= 40 * Scale
        /\ last.fn = "score_resume_sections" =>
              /\ ~Raised(last.value)
              /\ last.value.score >= 0
              /\ last.value.score <= 20 * Scale
        /\ last.fn \in {"score_formatting_heuristics", "score_action_verbs",
                        "score_semantic_similarity"} =>
              /\ ~Raised(last.value)
              /\ last.value.score >= 0
              /\ last.value.score <= 10 * Scale

\* Two whitespace-only texts have been scored
C5_BlankTextsScored ==
    /\ IsBlank(resume_text) /\ resume_text # ""
    /\ IsBlank(jd_text)
    /\ Returned("calculate_ats_score")
    /\ last.value.final_score = 7 * Scale

(***************************************************************************)
(* Properties of score_keyword_matching                                    *)
(***************************************************************************)

\* The words of the normalized text
TokensOf(text) == Range(Split(preprocess_text(text)))

\* The list is in strictly increasing lexicographic order
IsSortedList(q) == \A i \in 1..(Len(q) - 1) : StrLess(q[i], q[i + 1])

\* C6: whatever the resume, when the job description is empty or holds no
\* word of 3 characters or more, score_keyword_matching returns score 0,
\* matched_count 0 and empty lists of matched and of missing keywords.
C6_NoKeywordScoresZero ==
    /\ last.fn = "score_keyword_matching"
    /\ \A w \in TokensOf(jd_text) : Len(w) < 3
    => /\ ~Raised(last.value)
       /\ last.value.score = 0
       /\ last.value.details.matched_count = 0
       /\ last.value.details.matched_keywords = <<>>
       /\ last.value.details.missing_keywords = <<>>

\* A job description of short words only, one of them in the resume, has
\* been scored
C6_ShortWordsOnly ==
    /\ Returned("score_keyword_matching")
    /\ TokensOf(jd_text) # {}
    /\ \A w \in TokensOf(jd_text) : Len(w) < 3
    /\ TokensOf(jd_text) \cap TokensOf(resume_text) # {}
    /\ last.value.score = 0

\* C7: the matched keywords are the keywords of the job description that
\* are words of the normalized resume and the missing keywords are the
\* other ones, so the two are disjoint and make up the keyword set; the
\* score is |matched| / max(1, |keywords|) * 40; both lists are in
\* lexicographic order.
C7_MatchedAndMissing ==
    last.fn = "score_keyword_matching" =>
        /\ ~Raised(last.value)
        /\ LET d        == last.value.details
               keywords == Range(extract_keywords(jd_text, 3, 40))
               matched  == Range(d.matched_keywords)
               missing  == Range(d.missing_keywords)
           IN  /\ matched = keywords \cap TokensOf(resume_text)
               /\ missing = keywords \ TokensOf(resume_text)
               /\ matched \cap missing = {}
               /\ matched \cup missing = keywords
               /\ Len(d.matched_keywords) = Cardinality(matched)
               /\ Len(d.missing_keywords) = Cardinality(missing)
               /\ d.matched_count = Cardinality(matched)
               /\ last.value.score
                      = (Cardinality(matched) * 40 * Scale)
                        \div Max(1, Cardinality(keywords))
               /\ IsSortedList(d.matched_keywords)
               /\ IsSortedList(d.missing_keywords)

\* Two keywords are matched and one is missing, out of a job description
\* that does not name them in lexicographic order
C7_TwoMatchedOneMissing ==
    /\ Returned("score_keyword_matching")
    /\ Len(last.value.details.matched_keywords) >= 2
    /\ Len(last.value.details.missing_keywords) >= 1
    /\ ~IsSortedList(extract_keywords(jd_text, 3, 40))

(***************************************************************************)
(* Properties of score_resume_sections                                     *)
(***************************************************************************)

\* The section each line of HeaderWords belongs to, "" for none
SectionOfHeader ==
    <<"summary", "skills", "experience", "education", "projects",
      "education", "", "">>

\* The sections of the header lines the resume is made of
SectionsWritten ==
    {SectionOfHeader[k] :
        k \in {h \in 1..Len(HeaderWords) :
                  HeaderWords[h] \in Range(Split(resume_text))}} \ {""}

\* C8: score_resume_sections returns 4 points for each of the five sections
\* summary, skills, experience, education, projects whose pattern matches
\* the lowercased resume, a section counting once however often it
\* matches; a resume with the headers Summary, Skills, Experience,
\* Education and Projects scores 20 and has the five sections flagged.
C8_FourPointsPerSection ==
    last.fn = "score_resume_sections" =>
        LET detected == last.value.details.sections_detected
            flagged  == {detected[k].name :
                            k \in {j \in 1..Len(detected) :
                                      detected[j].found}}
        IN  /\ [k \in 1..Len(detected) |-> detected[k].name]
                   = <<"summary", "skills", "experience", "education",
                       "projects">>
            /\ flagged = SectionsWritten
            /\ last.value.score = 4 * Scale * Cardinality(SectionsWritten)
            /\ last.value.details.detected_count
                   = Cardinality(SectionsWritten)
            /\ {1, 2, 3, 4, 5} \subseteq
                   {h \in 1..Len(HeaderWords) :
                       HeaderWords[h] \in Range(Split(resume_text))}
               => /\ last.value.score = 20 * Scale
                  /\ \A k \in 1..Len(detected) : detected[k].found

\* The five headers, each written more than once, score 20
C8_FiveHeadersRepeated ==
    /\ Returned("score_resume_sections")
    /\ last.value.score = 20 * Scale
    /\ Len(Split(resume_text)) >= 10
    /\ "B.S." \notin Range(Split(resume_text))

(***************************************************************************)
(* Properties of score_formatting_heuristics                               *)
(***************************************************************************)

\* The whitespace-separated words of the resume
WordsOfResume == Len(Split(resume_text))

\* The penalty for the word count is due
OutsideWordLimits == WordsOfResume < 100 \/ WordsOfResume > 2000

\* More than 15 in 100 characters of the resume are special characters
ManySpecialCharacters ==
    Cardinality({i \in 1..Len(resume_text) :
                    Ch(resume_text, i) \in PunctSet \ {".", "-", ","}}) * 100
    > 15 * Len(resume_text)

\* The penalties recorded for the word count
WordCountPenalties ==
    SelectSeq(last.value.details.penalties,
              LAMBDA p : SubSeq(p, 1, 4) = "Too ")

\* C9: score_formatting_heuristics records one penalty of 3 points when
\* the resume has fewer than 100 or more than 2000 words and none from 100
\* to 2000 words, both limits included; a resume of 50 or of 2500 words
\* with at most 15% special characters and fewer than 5 bullet lines scores
\* 7.
C9_WordCountPenalty ==
    last.fn = "score_formatting_heuristics" =>
        /\ ~Raised(last.value)
        /\ last.value.details.word_count = WordsOfResume
        /\ Len(WordCountPenalties) = (IF OutsideWordLimits THEN 1 ELSE 0)
        /\ \A k \in 1..Len(WordCountPenalties) :
              LET p == WordCountPenalties[k]
              IN  SubSeq(p, Len(p) - 6, Len(p)) = ": -3pts"
        /\ ~ManySpecialCharacters
           /\ last.value.details.bullet_point_count < 5
           => last.value.score
                  = (IF OutsideWordLimits THEN 7 ELSE 10) * Scale
        /\ WordsOfResume \in {50, 2500}
           /\ ~ManySpecialCharacters
           /\ last.value.details.bullet_point_count < 5
           => last.value.score = 7 * Scale

\* A resume of 2500 words, without special characters or bullet lines,
\* scores 7
C9_LongResumeScoresSeven ==
    /\ Returned("score_formatting_heuristics")
    /\ WordsOfResume = 2500
    /\ last.value.details.bullet_point_count = 0
    /\ last.value.details.special_char_ratio = 0
    /\ last.value.score = 7 * Scale

\* The first character of a line
IsLineStart(s, i) == i = 1 \/ Ch(s, i - 1) = "\n"

\* The last character of the line that starts at i, its line feed if it
\* has one
LineEnd(s, i) ==
    CHOOSE e \in i..Len(s) :
        /\ e = Len(s) \/ Ch(s, e) = "\n"
        /\ \A k \in i..(e - 1) : Ch(s, k) # "\n"

\* The text without its bullet lines
WithoutBulletLines(s) ==
    JoinStr([i \in 1..Len(s) |->
                IF IsLineStart(s, i)
                THEN LET line == SubSeq(s, i, LineEnd(s, i))
                     IN  IF BulletCount(line) > 0 THEN "" ELSE line
                ELSE ""],
            1, Len(s))

\* C10 as stated: a resume with at least 5 bullet lines and no penalty has
\* the bonus recorded and scores 2 points more than the same resume without
\* its bullet lines.
C10_TwoPointsAboveNoBullets ==
    /\ Returned("score_formatting_heuristics")
    /\ last.value.details.bullet_point_count >= 5
    /\ last.value.details.penalties = <<>>
    => /\ last.value.details.bonuses # <<>>
       /\ last.value.score
              = score_formatting_heuristics(
                    WithoutBulletLines(resume_text)).score + 2 * Scale

\* C10: a resume with at least 5 bullet lines has the bonus recorded once
\* and its 2 points added before the score is clamped to [0, 10]: the score
\* is min(10, 10 - penalties + 2), which is 10 when no penalty is due.
C10_BonusBeforeClamp ==
    /\ last.fn = "score_formatting_heuristics"
    /\ BulletCount(resume_text) >= 5
    => /\ ~Raised(last.value)
       /\ Len(last.value.details.bonuses) = 1
       /\ last.value.score
              = Min(10 * Scale,
                    10 * Scale
                    - (IF OutsideWordLimits THEN 3 * Scale ELSE 0)
                    - (IF ManySpecialCharacters THEN 2 * Scale ELSE 0)
                    + 2 * Scale)
       /\ ~OutsideWordLimits /\ ~ManySpecialCharacters
          => last.value.score = 10 * Scale

\* Six lines that start with "- " and no penalty: the score is 10, as it
\* is without the six lines
C10_BonusWithoutPenalty ==
    /\ Returned("score_formatting_heuristics")
    /\ last.value.details.bullet_point_count = 6
    /\ SubSeq(resume_text, 1, 2) = "- "
    /\ last.value.details.penalties = <<>>
    /\ last.value.details.bonuses # <<>>
    /\ last.value.score = 10 * Scale
    /\ score_formatting_heuristics(WithoutBulletLines(resume_text)).score
           = 10 * Scale

(***************************************************************************)
(* Properties of score_action_verbs                                        *)
(***************************************************************************)

NoTerm(text) ==
    \A w \in Range(Tokenize(preprocess_text(text))) :
        w \in ENGLISH_STOP_WORDS

\* The except branch ran
FallbackUsed == NoTerm(resume_text) /\ NoTerm(jd_text)

\* C12 as stated: a resume equal to the job description has similarity 1
\* and score 10, whatever the text.
C12_SameTextScoresTen ==
    /\ last.fn = "score_semantic_similarity"
    /\ resume_text = jd_text
    => /\ ~Raised(last.value)
       /\ last.value.details.similarity_score = 10000
       /\ last.value.score = 10 * Scale

\* C12: a resume equal to the job description has similarity 1 and score
\* 10, by either method, when the normalized text holds a word; when it
\* holds none (empty, whitespace or removed punctuation only) the
\* similarity and the score are 0.
C12_SameWordsScoreTen ==
    /\ last.fn = "score_semantic_similarity"
    /\ resume_text = jd_text
    => /\ ~Raised(last.value)
       /\ TokensOf(jd_text) # {} =>
              /\ last.value.details.similarity_score = 10000
              /\ last.value.score = 10 * Scale
       /\ TokensOf(jd_text) = {} =>
              /\ last.value.details.similarity_score = 0
              /\ last.value.score = 0

\* One text that repeats a term, as resume and as job description, scores
\* 10 by the cosine of its rows
C12_SameTermsTwice ==
    /\ Returned("score_semantic_similarity")
    /\ resume_text = jd_text
    /\ ~FallbackUsed
    /\ Len(Tokenize(preprocess_text(jd_text))) >= 2
    /\ last.value.score = 10 * Scale

\* C13: when neither text holds a term, score_semantic_similarity raises
\* nothing and returns the word overlap: the similarity is the share of
\* the words of the job description that are words of the resume, 0 when
\* the job description has no word, and the score is min(10, 10 times the
\* similarity), between 0 and 10.
C13_FallbackIsWordOverlap ==
    last.fn = "score_semantic_similarity" /\ FallbackUsed =>
        /\ ~Raised(last.value)
        /\ LET common == Cardinality(TokensOf(resume_text)
                                     \cap TokensOf(jd_text))
               total  == Cardinality(TokensOf(jd_text))
           IN  /\ total = 0 =>
                      /\ last.value.details.similarity_score = 0
                      /\ last.value.score = 0
               /\ total > 0 =>
                      /\ last.value.details.similarity_score
                             = RoundHalfEven(common * 10000, total)
                      /\ last.value.score
                             = Min(10 * Scale, (common * 10 * Scale) \div total)
        /\ last.value.score >= 0
        /\ last.value.score <= 10 * Scale

\* Neither text holds a term and one of the two words of the job
\* description is in the resume: similarity 0.5, score 5
C13_HalfTheWords ==
    /\ Returned("score_semantic_similarity")
    /\ FallbackUsed
    /\ Cardinality(TokensOf(jd_text)) = 2
    /\ last.value.details.similarity_score = 5000
    /\ last.value.score = 5 * Scale

\* C18: the method of the details names the method that produced the
\* score: the TF-IDF cosine when fit_transform succeeded, the word overlap
\* when the except branch ran.
C18_MethodNamesTheMethodUsed ==
    last.fn = "score_semantic_similarity" =>
        /\ ~Raised(last.value)
        /\ last.value.details.method = "TF-IDF Cosine Similarity"
               <=> ~FallbackUsed

\* C19: an exception of the try block other than that of the empty
\* vocabulary reaches the caller: no score of the except branch is
\* returned in its place.
C19_OtherFailuresPropagate ==
    [][CallScoreSemanticSimilarityFailing /\ ~FallbackUsed
       => Raised(last'.value)]_vars

(***************************************************************************)
(* Properties of generate_improvement_suggestions                          *)
(***************************************************************************)

StartsWith(s, p) == Len(s) >= Len(p) /\ SubSeq(s, 1, Len(p)) = p

EndsWith(s, p) ==
    Len(s) >= Len(p) /\ SubSeq(s, Len(s) - Len(p) + 1, Len(s)) = p

\* The suggestions of the last call, made from the result held in ats_result
Suggested == last.fn = "generate_improvement_suggestions"

ComponentOf(name) == Item(ats_result[1].components, name)

NoMissingSection ==
    \A k \in 1..Len(ComponentOf("resume_sections").details.sections_detected) :
        ComponentOf("resume_sections").details.sections_detected[k].found

IsGreatScore(out) == Len(out) = 1 /\ StartsWith(out[1], "Great ATS Score: ")

NamesBoth(q) ==
    "Add missing keywords: " \o q[1] \o ", " \o q[2]
    \o ". These terms are in the JD but not in your resume."

\* C15 as the specification words it: a final score of 40 with two missing
\* keywords makes the first suggestion the missing-keywords one, naming both
C15_TwoMissingKeywordsLead ==
    (/\ Suggested
     /\ ats_result[1].final_score = 40 * Scale
     /\ Len(ComponentOf("keyword_matching").details.missing_keywords) = 2)
    => last.value[1]
       = NamesBoth(ComponentOf("keyword_matching").details.missing_keywords)

\* C15: a final score of 40 with two missing keywords and a keyword_matching
\* score under 20 makes the first suggestion the missing-keywords one, naming
\* both keywords
C15_TwoMissingKeywordsOfLowScoreLead ==
    (/\ Suggested
     /\ ats_result[1].final_score = 40 * Scale
     /\ Len(ComponentOf("keyword_matching").details.missing_keywords) = 2
     /\ ComponentOf("keyword_matching").score < 20 * Scale)
    => last.value[1]
       = NamesBoth(ComponentOf("keyword_matching").details.missing_keywords)

C15_FortyWithTwoMissing ==
    /\ Suggested
    /\ ats_result[1].final_score = 40 * Scale
    /\ ComponentOf("keyword_matching").details.missing_keywords
       = <<"java", "python">>
    /\ ComponentOf("keyword_matching").score < 20 * Scale
    /\ last.value[1] = NamesBoth(<<"java", "python">>)

\* The rule a suggestion comes from: 1 keywords, 2 sections, 3 a formatting
\* penalty, 4 expansion, 5 action verbs, 6 semantic match, 7 the overall
\* score, 8 the positive message, 0 none of them
RuleOf(s, penalties) ==
    IF StartsWith(s, "Add missing keywords: ") THEN 1
    ELSE IF StartsWith(s, "Add missing sections: ") THEN 2
    ELSE IF s \in Range(penalties) THEN 3
    ELSE IF StartsWith(s, "Expand your resume content.") THEN 4
    ELSE IF StartsWith(s, "Use stronger action verbs.") THEN 5
    ELSE IF StartsWith(s, "Low semantic match with JD.") THEN 6
    ELSE IF StartsWith(s, "Overall ATS Score: ") THEN 7
    ELSE IF StartsWith(s, "Great ATS Score: ") THEN 8
    ELSE 0

\* Whether the rule fires on the result held in ats_result
RuleFires(rule) ==
    CASE rule = 1 ->
           /\ ComponentOf("keyword_matching").score < 20 * Scale
           /\ ComponentOf("keyword_matching").details.missing_keywords # <<>>
      [] rule = 2 ->
           /\ ComponentOf("resume_sections").score < 20 * Scale
           /\ ~NoMissingSection
      [] rule = 3 ->
           ComponentOf("formatting_heuristics").details.penalties # <<>>
      [] rule = 4 ->
           ComponentOf("formatting_heuristics").details.word_count < 100
      [] rule = 5 -> ComponentOf("action_verbs").score < 6 * Scale
      [] rule = 6 -> ComponentOf("semantic_similarity").score < 5 * Scale
      [] rule = 7 -> ats_result[1].final_score < 75 * Scale

RulesOf(out, penalties) ==
    [i \in 1..Len(out) |-> RuleOf(out[i], penalties)]

\* The suggestions out are those of the seven rules in their order
InRuleOrder(out, penalties) ==
    /\ out # <<>>
    /\ \A i \in 1..Len(out) : RuleOf(out[i], penalties) # 0
    /\ \A i, j \in 1..Len(out) :
          i < j => \/ RuleOf(out[i], penalties) < RuleOf(out[j], penalties)
                   \/ /\ RuleOf(out[i], penalties) = 3
                      /\ RuleOf(out[j], penalties) = 3
    /\ SelectSeq(out, LAMBDA s : RuleOf(s, penalties) = 3) = penalties
    /\ \A rule \in 1..7 :
          RuleFires(rule) <=> rule \in Range(RulesOf(out, penalties))
    /\ 8 \in Range(RulesOf(out, penalties))
       <=> \A rule \in 1..7 : ~RuleFires(rule)

\* C16: the suggestions are those of the rules that fire, in the order
\* keywords, sections, one per formatting penalty in the recorded order,
\* expansion, action verbs, semantic match, overall score; the list is never
\* empty and it is the positive message alone exactly when no rule fired
C16_SuggestionsInRuleOrder ==
    Suggested
    => InRuleOrder(last.value,
                   ComponentOf("formatting_heuristics").details.penalties)

C16_EveryRuleFired ==
    /\ Suggested
    /\ \A rule \in 1..7 : RuleFires(rule)
    /\ Len(ComponentOf("formatting_heuristics").details.penalties) = 2
    /\ Len(last.value) = 8

\* The resume is short, names no section, holds no action verb and shares a
\* keyword with the job description
ShortPlainResume ==
    /\ ats_result # None
    /\ WordsOfResume < 100
    /\ \A k \in 1..Len(SectionTable) :
          ~SearchWord(SectionTable[k].pattern, Lower(resume_text))
    /\ TokensOf(resume_text) \cap ActionVerbTable = {}
    /\ \E w \in TokensOf(jd_text) :
          Len(w) > 2 /\ w \in TokensOf(resume_text)

IsTooFewWords(s) ==
    StartsWith(s, "Too few words (") /\ EndsWith(s, "): -3pts")

\* C17: for a short resume that names no section, holds no action verb and
\* shares a keyword with the job description, the section score and the
\* action-verb score are 0, the keyword score is above 0, the formatting
\* penalties hold "Too few words (N): -3pts", and the suggestions hold that
\* penalty line and, after it, the "Expand your resume content" line
C17_ShortResumeToldTwice ==
    ShortPlainResume
    => /\ ComponentOf("resume_sections").score = 0
       /\ ComponentOf("action_verbs").score = 0
       /\ ComponentOf("keyword_matching").score > 0
       /\ \E k \in 1..Len(ComponentOf("formatting_heuristics")
                              .details.penalties) :
             IsTooFewWords(ComponentOf("formatting_heuristics")
                               .details.penalties[k])
       /\ Suggested =>
             \E i, j \in 1..Len(last.value) :
                /\ i < j
                /\ IsTooFewWords(last.value[i])
                /\ last.value[i]
                   \in Range(ComponentOf("formatting_heuristics")
                                 .details.penalties)
                /\ StartsWith(last.value[j], "Expand your resume content.")

C17_JohnDoeSuggested ==
    /\ ShortPlainResume
    /\ Suggested
    /\ resume_text = "John Doe Python Developer"
    /\ jd_text = "Python developer needed"

\* The first character after the leading whitespace of the line that starts
\* at i, 0 when the line holds whitespace only
FirstOfLine(s, i) ==
    IF \A k \in i..LineEnd(s, i) : IsSpace(Ch(s, k)) THEN 0
    ELSE CHOOSE k \in i..LineEnd(s, i) :
             /\ ~IsSpace(Ch(s, k))
             /\ \A j \in i..(k - 1) : IsSpace(Ch(s, j))

\* The lines whose first character after the leading whitespace is a bullet
\* character, by the index of their first character
BulletLinesOf(s) ==
    {i \in 1..Len(s) :
        /\ IsLineStart(s, i)
        /\ FirstOfLine(s, i) # 0
        /\ Ch(s, FirstOfLine(s, i)) \in {"-", "*"}}

\* Those of them whose bullet character has a whitespace character after it
SpacedBulletLinesOf(s) ==
    {i \in BulletLinesOf(s) :
        /\ FirstOfLine(s, i) < Len(s)
        /\ IsSpace(Ch(s, FirstOfLine(s, i) + 1))}

\* C20 as the specification words it: bullet_point_count is the number of
\* lines whose first character after the leading whitespace is a bullet
\* character, whatever follows it, and the bonus is recorded exactly when
\* that number is 5 or more
C20_CountsEveryBulletStart ==
    Returned("score_formatting_heuristics")
    => /\ last.value.details.bullet_point_count
          = Cardinality(BulletLinesOf(resume_text))
       /\ last.value.details.bonuses # <<>>
          <=> Cardinality(BulletLinesOf(resume_text)) >= 5

\* C20: bullet_point_count is the number of lines whose first character
\* after the leading whitespace is a bullet character with a whitespace
\* character (the line feed included) right after it, and the bonus is
\* recorded exactly when that number is 5 or more
C20_CountsSpacedBulletStarts ==
    Returned("score_formatting_heuristics")
    => /\ last.value.details.bullet_point_count
          = Cardinality(SpacedBulletLinesOf(resume_text))
       /\ last.value.details.bonuses # <<>>
          <=> Cardinality(SpacedBulletLinesOf(resume_text)) >= 5

C20_FiveSpacedOfSeven ==
    /\ Returned("score_formatting_heuristics")
    /\ last.value.details.bullet_point_count = 5
    /\ last.value.details.bonuses # <<>>
    /\ Cardinality(BulletLinesOf(resume_text)) = 7

(***************************************************************************)
(* Properties of the utility functions                                     *)
(***************************************************************************)

\* The tokens of the normalized text, in their order
NormalizedTokens(text) == Split(preprocess_text(text))

\* Times w is one of the tokens
Frequency(w, tokens) ==
    Cardinality({i \in 1..Len(tokens) : tokens[i] = w})

\* The first place of w among the tokens
FirstPlace(w, tokens) ==
    CHOOSE i \in 1..Len(tokens) :
        tokens[i] = w /\ \A k \in 1..(i - 1) : tokens[k] # w

\* q is a list of top keywords among the tokens for the two parameters
IsTopKeywords(q, tokens, min_length, max_keywords) ==
    /\ \A i, j \in 1..Len(q) : i # j => q[i] # q[j]
    /\ \A i \in 1..Len(q) :
          q[i] \in Range(tokens) /\ Len(q[i]) >= min_length
    /\ Len(q) <= max_keywords
    /\ \A i, j \in 1..Len(q) :
          i < j => \/ Frequency(q[i], tokens) > Frequency(q[j], tokens)
                   \/ /\ Frequency(q[i], tokens) = Frequency(q[j], tokens)
                      /\ FirstPlace(q[i], tokens) < FirstPlace(q[j], tokens)
    /\ \A w \in Range(tokens) \ Range(q) :
          Len(w) >= min_length
          => \A i \in 1..Len(q) :
                Frequency(w, tokens) <= Frequency(q[i], tokens)

\* C21: extract_keywords returns pairwise distinct tokens of the normalized
\* text, each of at least min_length characters, at most max_keywords of
\* them, by non-increasing frequency with equal frequencies in the order of
\* first occurrence, and no eligible token left out is more frequent than a
\* returned one
C21_TopKeywordsByFrequency ==
    last.fn = "extract_keywords"
    => IsTopKeywords(last.value, NormalizedTokens(jd_text),
                     last.args.min_length, last.args.max_keywords)

C21_TieAndOmission ==
    /\ last.fn = "extract_keywords"
    /\ jd_text = "sql Java a"
    /\ last.args = [min_length |-> 1, max_keywords |-> 2]
    /\ last.value = <<"sql", "java">>

\* r'http\S+|www\S+' has a match in s
HasUrl(s) ==
    \E k \in 1..Len(s) :
        \/ /\ k + 4 <= Len(s)
           /\ SubSeq(s, k, k + 3) = "http"
           /\ ~IsSpace(Ch(s, k + 4))
        \/ /\ k + 3 <= Len(s)
           /\ SubSeq(s, k, k + 2) = "www"
           /\ ~IsSpace(Ch(s, k + 3))

\* r'\S+@\S+' has a match in s
HasEmail(s) ==
    \E k \in 2..(Len(s) - 1) :
        Ch(s, k) = "@" /\ ~IsSpace(Ch(s, k - 1)) /\ ~IsSpace(Ch(s, k + 1))

\* No uppercase letter, no e-mail address, no punctuation but '-' and '.',
\* no whitespace but one space between two words
IsClean(s) ==
    /\ \A i \in 1..Len(s) : Ch(s, i) \notin UpperSet
    /\ ~HasEmail(s)
    /\ \A i \in 1..Len(s) : Ch(s, i) \in PunctSet => Ch(s, i) \in {"-", "."}
    /\ \A i \in 1..Len(s) : IsSpace(Ch(s, i)) => Ch(s, i) = " "
    /\ s # "" => ~IsSpace(Ch(s, 1)) /\ ~IsSpace(Ch(s, Len(s)))
    /\ \A i \in 1..(Len(s) - 1) : ~(IsSpace(Ch(s, i)) /\ IsSpace(Ch(s, i + 1)))

\* C22 as the specification words it: the text preprocess_text returns is
\* clean, holds no URL and is left as it is by a second preprocess_text; the
\* empty text gives the empty text
C22_NormalizedAndIdempotent ==
    last.fn = "preprocess_text"
    => /\ IsClean(last.value)
       /\ ~HasUrl(last.value)
       /\ preprocess_text(last.value) = last.value
       /\ resume_text = "" => last.value = ""

\* C22: the text preprocess_text returns is clean; a second preprocess_text
\* leaves it as it is exactly when it holds no URL, which the removal of
\* punctuation can form after the URLs were removed; the empty text gives
\* the empty text
C22_NormalizedAndIdempotentWithoutUrl ==
    last.fn = "preprocess_text"
    => /\ IsClean(last.value)
       /\ preprocess_text(last.value) = last.value <=> ~HasUrl(last.value)
       /\ resume_text = "" => last.value = ""

C22_UrlFormedByPunctuation ==
    /\ last.fn = "preprocess_text"
    /\ resume_text = "ht!tpx"
    /\ last.value = "httpx"
    /\ preprocess_text(last.value) = ""

\* The keywords of the job description: the distinct tokens of its
\* normalized text that hold 3 characters or more
JdKeywords == {w \in TokensOf(jd_text) : Len(w) >= 3}

\* C23: in the details score_keyword_matching returns, total_jd_keywords is
\* the number of keywords of the job description, which is matched_count
\* plus the number of missing_keywords, and match_percentage is 100 times
\* matched_count over total_jd_keywords (to 2 decimal places) when
\* total_jd_keywords is above 0
C23_TotalIsMatchedPlusMissing ==
    Returned("score_keyword_matching")
    => /\ last.value.details.total_jd_keywords = Cardinality(JdKeywords)
       /\ last.value.details.total_jd_keywords
          = last.value.details.matched_count
            + Len(last.value.details.missing_keywords)
       /\ last.value.details.total_jd_keywords > 0
          => last.value.details.match_percentage
             = RoundHalfEven(last.value.details.matched_count * 10000,
                             last.value.details.total_jd_keywords)

(***************************************************************************)
(* Properties of concurrent calls                                          *)
(***************************************************************************)

\* The call of thread t returned
HasReturned(t) == running[t].result # None

\* The call of thread t invoked a scorer and has not returned
IsScoring(t) ==
    /\ ~HasReturned(t)
    /\ \E name \in Scorers : running[t].scores[name] # None

\* C24: whatever the interleaving of the scorer invocations of the
\* concurrent calls and the order of the scorers in a call, the module
\* tables and the arguments keep their values, and every call that returned
\* gave the result calculate_ats_score gives for its arguments when it runs
\* alone, and its suggestions are those of that result
C24_ConcurrentCallsAsAlone ==
    /\ STRONG_ACTION_VERBS = ActionVerbTable
    /\ RESUME_SECTIONS = SectionTable
    /\ \A t \in DOMAIN running :
          /\ running[t].resume = ConcurrentInputs[t][1]
          /\ running[t].jd = ConcurrentInputs[t][2]
          /\ HasReturned(t)
             => running[t].result[1]
                = calculate_ats_score(ConcurrentInputs[t][1],
                                      ConcurrentInputs[t][2])
          /\ running[t].suggestions # None
             => running[t].suggestions[1]
                = generate_improvement_suggestions(running[t].result[1],
                                                   75 * Scale)

C24_ReturnedWhileOtherScores ==
    /\ HasReturned(2)
    /\ IsScoring(1)
    /\ running[1].scores["keyword_matching"] # None
    /\ running[1].scores["action_verbs"] = None

====
